---------------------------- MODULE Spec2Model ----------------------------
(***************************************************************************)
(* A model of parse.py, the MyBB user extractor.                           *)
(*                                                                         *)
(* Python strings are modelled as sequences of one-character strings, so   *)
(* that slicing, strip(), startswith() and the per-character scan are      *)
(* computed the way the code computes them.                                *)
(*                                                                         *)
(* Four specifications share the definitions:                              *)
(*   SpecTok       parse_values_line, one step per statement / iteration   *)
(*   SpecUser      process_user, one step per try-block                    *)
(*   SpecMain      main, one step per statement group of the line loop     *)
(*   SpecProgress  main on long files, past the 500th processed line       *)
(***************************************************************************)
EXTENDS Integers, Sequences, FiniteSets, TLC

VARIABLES
    pv,            \* parse_values_line: the frame (argument, pc and locals)
    top_commas,    \* history: commas seen by the scan while in_quote is false
    quoted_commas, \* history: commas seen by the scan while in_quote is true
    pu,            \* process_user: the frame (argument, pc and locals)
    argc,          \* main: len(sys.argv)
    is_file,       \* main: input_file.is_file()
    readable,      \* main: whether open(input_file) succeeds
    mpc,           \* main: the statement it is at
    exc,           \* main: the exception that left it ("" when none)
    exit_code,     \* main: what sys.exit() is given (-1 while running)
    csv_file,      \* main: "None", or the state of the handle of line 118
    csv_writer,    \* main: whether csv_writer is set
    f,             \* main: the state of the input handle of line 131
    csv_rows,      \* main: the rows written through csv_writer, in order
    printed,       \* main: the user blocks printed to the console, in order
    progress,      \* main: the progress messages printed, in order
    report,        \* main: the final report, once printed
    processed,     \* main
    valid_users,   \* main
    line_num,      \* main
    line,          \* main
    fields,        \* main
    user_data,     \* main
    seen           \* history: the lines read so far, in order

tokvars == <<pv, top_commas, quoted_commas>>

uservars == <<pu>>

envvars == <<argc, is_file, readable>>

mainvars == <<mpc, exc, exit_code, csv_file, csv_writer, f, csv_rows, printed,
              progress, report, processed, valid_users, line_num, line, fields,
              user_data, seen>>

vars == <<tokvars, uservars, envvars, mainvars>>

-----------------------------------------------------------------------------
(* Bounds of the model *)

\* longest tuple text (the text between the parentheses) that is enumerated
MaxBody == 4

\* longest registration text that is enumerated
MaxReg == 3

\* longest text after the 0x prefix of a last-IP field that is enumerated
MaxHex == 4

-----------------------------------------------------------------------------
(* Python str helpers *)

Min(S) == CHOOSE x \in S : \A y \in S : x <= y

Max(S) == CHOOSE x \in S : \A y \in S : x >= y

\* str.isspace() / the regex class \s, on the characters the model draws
IsSpace(c) == c \in {" ", "\t", "\n", "\r"}

\* str.strip()
Strip(s) ==
    LET keep == {k \in 1..Len(s) : ~IsSpace(s[k])}
    IN  IF keep = {} THEN <<>> ELSE SubSeq(s, Min(keep), Max(keep))

\* s.startswith(p)
StartsWith(s, p) == Len(s) >= Len(p) /\ SubSeq(s, 1, Len(p)) = p

\* s.endswith(p)
EndsWith(s, p) == Len(s) >= Len(p) /\ SubSeq(s, Len(s) - Len(p) + 1, Len(s)) = p

\* the slice s[1:-1]
Slice1m1(s) == SubSeq(s, 2, Len(s) - 1)

\* str.lower() on the letters the model draws
LowerChar(c) ==
    CASE c = "V" -> "v" [] c = "A" -> "a" [] c = "L" -> "l" [] c = "U" -> "u"
      [] c = "E" -> "e" [] c = "S" -> "s" [] c = "X" -> "x" [] c = "F" -> "f"
      [] c = "I" -> "i" [] c = "N" -> "n" [] c = "B" -> "b" [] c = "C" -> "c"
      [] c = "D" -> "d" [] OTHER -> c

Lower(s) == [k \in 1..Len(s) |-> LowerChar(s[k])]

\* s.count(c)
CountOf(c, s) == Cardinality({k \in 1..Len(s) : s[k] = c})

\* every sequence over A of length at most n
SeqsUpTo(A, n) == UNION {[1..k -> A] : k \in 0..n}

\* Optional[...]: None, or a value
None == [some |-> FALSE, val |-> <<>>]

Some(v) == [some |-> TRUE, val |-> v]

-----------------------------------------------------------------------------
(* parse_values_line: the re.search of line 22. Its pattern is, in order:  *)
(* VALUES, any whitespace, an opening parenthesis, group 1 (any text, as    *)
(* long as possible), a closing parenthesis, an optional semicolon, any     *)
(* whitespace, the end of the text; with DOTALL and IGNORECASE.             *)

KEYWORD == <<"v", "a", "l", "u", "e", "s">>

\* KeywordAt without IGNORECASE
KeywordAt_CaseSensitive(l, s) ==
    /\ s + Len(KEYWORD) - 1 <= Len(l)
    /\ SubSeq(l, s, s + Len(KEYWORD) - 1) = <<"V", "A", "L", "U", "E", "S">>

\* VALUES, case-insensitively, at position s
KeywordAt(l, s) ==
    /\ s + Len(KEYWORD) - 1 <= Len(l)
    /\ Lower(SubSeq(l, s, s + Len(KEYWORD) - 1)) = KEYWORD

\* \s* is greedy: the first position at or after p that holds no whitespace
SkipSpace(l, p) ==
    LET stop == {k \in p..Len(l) : ~IsSpace(l[k])}
    IN  IF stop = {} THEN Len(l) + 1 ELSE Min(stop)

\* ;?\s*$ from position k on ($ is the end of the text, or the place before
\* its last line break, which \s* reaches anyway)
TailMatches(l, k) ==
    LET k2 == IF k <= Len(l) /\ l[k] = ";" THEN k + 1 ELSE k
    IN  SkipSpace(l, k2) = Len(l) + 1

\* the positions of '(' that VALUES\s*\( reaches when it starts at s
ParenAfter(l, s) ==
    IF ~KeywordAt(l, s) THEN 0
    ELSE LET q == SkipSpace(l, s + Len(KEYWORD))
         IN  IF q <= Len(l) /\ l[q] = "(" THEN q ELSE 0

\* the positions of ')' at which (.*) may end when the group opens after q
GroupEnds(l, q) == {e \in (q + 1)..Len(l) : l[e] = ")" /\ TailMatches(l, e + 1)}

\* the pattern matches when the search starts at s
MatchesAt(l, s) == ParenAfter(l, s) # 0 /\ GroupEnds(l, ParenAfter(l, s)) # {}

\* re.search: the leftmost start that matches; .* is greedy, so group(1) runs to
\* the last ')' that lets the rest of the pattern match
ReSearch(l) ==
    LET starts == {s \in 1..Len(l) : MatchesAt(l, s)}
    IN  IF starts = {} THEN None
        ELSE LET q == ParenAfter(l, Min(starts))
             IN  Some(SubSeq(l, q + 1, Max(GroupEnds(l, q)) - 1))

-----------------------------------------------------------------------------
(* parse_values_line: the scan of lines 27-49 *)

\* ScanChar with the quote toggle of lines 32-33 left out
ScanChar_NoQuoteToggle(fr, char) ==
    IF char = ","
    THEN [fr EXCEPT !.fields = Append(fr.fields, Strip(fr.current)), !.current = <<>>]
    ELSE [fr EXCEPT !.current = Append(fr.current, char)]

\* one iteration of the for loop of lines 31-38, on the locals fr
ScanChar(fr, char) ==
    LET q == IF char = "'" THEN ~fr.in_quote ELSE fr.in_quote
    IN  IF char = "," /\ ~q
        THEN [fr EXCEPT !.in_quote = q,
                       !.fields = Append(fr.fields, Strip(fr.current)),
                       !.current = <<>>]
        ELSE [fr EXCEPT !.in_quote = q, !.current = Append(fr.current, char)]

\* lines 40-41
FlushCurrent(fr) ==
    IF fr.current # <<>>
    THEN [fr EXCEPT !.fields = Append(fr.fields, Strip(fr.current))]
    ELSE fr

\* UnwrapField testing only the opening quote
UnwrapField_OpeningQuoteOnly(fld) ==
    IF StartsWith(fld, <<"'">>) THEN Slice1m1(fld) ELSE fld

\* line 45, one field
UnwrapField(fld) ==
    IF StartsWith(fld, <<"'">>) /\ EndsWith(fld, <<"'">>) THEN Slice1m1(fld) ELSE fld

\* lines 44-47
UnwrapAll(flds) == [k \in 1..Len(flds) |-> UnwrapField(flds[k])]

\* the locals at line 29
ScanStart(values_str) ==
    [values_str |-> values_str, i |-> 1, fields |-> <<>>, current |-> <<>>,
     in_quote |-> FALSE]

\* the for loop of lines 31-38 over values_str[lo..hi], in order; the range is
\* split in halves and the left half is evaluated before the right one starts
RECURSIVE ScanRange(_, _, _)
ScanRange(fr, lo, hi) ==
    IF lo > hi THEN fr
    ELSE IF lo = hi THEN [ScanChar(fr, fr.values_str[lo]) EXCEPT !.i = lo + 1]
    ELSE LET mid == (lo + hi) \div 2
             left == ScanRange(fr, lo, mid)
         IN  IF left.i = mid + 1 THEN ScanRange(left, mid + 1, hi) ELSE left

ScanAll(fr) == ScanRange(fr, 1, Len(fr.values_str))

\* the whole call, as main uses it
ParseValuesLine(l) ==
    LET m == ReSearch(l)
    IN  IF ~m.some THEN None
        ELSE Some(UnwrapAll(FlushCurrent(ScanAll(ScanStart(m.val))).fields))

-----------------------------------------------------------------------------
(* parse_values_line, step by step *)

PvIdle == [line |-> <<>>, pc |-> "idle", values_str |-> <<>>, i |-> 1, fields |-> <<>>,
           current |-> <<>>, in_quote |-> FALSE, ret |-> None]

\* lines 22-29
PvSearch ==
    /\ pv.pc = "search"
    /\ LET m == ReSearch(pv.line)
       IN  pv' = IF ~m.some
                 THEN [pv EXCEPT !.pc = "done", !.ret = None]
                 ELSE [pv EXCEPT !.pc = "scan", !.values_str = m.val]
    /\ UNCHANGED <<top_commas, quoted_commas, uservars, envvars, mainvars>>

\* lines 31-38, one character
PvScan ==
    /\ pv.pc = "scan"
    /\ pv.i <= Len(pv.values_str)
    /\ LET char == pv.values_str[pv.i]
           g == ScanChar(pv, char)
       IN  /\ pv' = [g EXCEPT !.i = pv.i + 1]
           /\ top_commas' = IF char = "," /\ ~g.in_quote
                            THEN top_commas + 1 ELSE top_commas
           /\ quoted_commas' = IF char = "," /\ g.in_quote
                               THEN quoted_commas + 1 ELSE quoted_commas
    /\ UNCHANGED <<uservars, envvars, mainvars>>

\* lines 40-41
PvFlush ==
    /\ pv.pc = "scan"
    /\ pv.i > Len(pv.values_str)
    /\ pv' = [FlushCurrent(pv) EXCEPT !.pc = "unwrap"]
    /\ UNCHANGED <<top_commas, quoted_commas, uservars, envvars, mainvars>>

\* lines 44-49 (the comprehension rebinds fields; the frame keeps the split
\* fields in pv.fields and the rebound list in pv.ret)
PvUnwrap ==
    /\ pv.pc = "unwrap"
    /\ pv' = [pv EXCEPT !.pc = "done", !.ret = Some(UnwrapAll(pv.fields))]
    /\ UNCHANGED <<top_commas, quoted_commas, uservars, envvars, mainvars>>


-----------------------------------------------------------------------------
(* process_user: float(), int(), time.localtime(), time.strftime()          *)
(* Numbers too large for 32-bit integers are kept as digit lists.           *)

IsDigit(c) == c \in {"0", "1", "2", "3", "4", "5", "6", "7", "8", "9"}

DigitVal(c) ==
    CASE c = "0" -> 0 [] c = "1" -> 1 [] c = "2" -> 2 [] c = "3" -> 3
      [] c = "4" -> 4 [] c = "5" -> 5 [] c = "6" -> 6 [] c = "7" -> 7
      [] c = "8" -> 8 [] c = "9" -> 9

DigitChar(d) == <<"0", "1", "2", "3", "4", "5", "6", "7", "8", "9">>[d + 1]

\* a digit part of a Python numeric literal: digits, with single underscores
\* between digits only
ValidDigitPart(d, ok(_)) ==
    /\ d # <<>>
    /\ \A k \in 1..Len(d) :
        \/ ok(d[k])
        \/ /\ d[k] = "_"
           /\ 1 < k /\ k < Len(d)
           /\ ok(d[k - 1]) /\ ok(d[k + 1])

\* the characters of d that are not underscores
RECURSIVE DropUnderscores(_)
DropUnderscores(d) ==
    IF d = <<>> THEN <<>>
    ELSE IF Head(d) = "_" THEN DropUnderscores(Tail(d))
    ELSE <<Head(d)>> \o DropUnderscores(Tail(d))

\* a digit list without its leading zeros
RECURSIVE DropLeadingZeros(_)
DropLeadingZeros(d) ==
    IF d # <<>> /\ Head(d) = 0 THEN DropLeadingZeros(Tail(d)) ELSE d

\* the value of a short digit list
RECURSIVE DigitsValue(_)
DigitsValue(d) ==
    IF d = <<>> THEN 0 ELSE 10 * DigitsValue(SubSeq(d, 1, Len(d) - 1)) + d[Len(d)]

\* a <= b, for digit lists without leading zeros
DigitsLE(a, b) ==
    \/ Len(a) < Len(b)
    \/ /\ Len(a) = Len(b)
       /\ LET diff == {k \in 1..Len(a) : a[k] # b[k]}
          IN  diff = {} \/ a[Min(diff)] < b[Min(diff)]

\* float(): the exponent part, an optionally signed digit part
FloatExponent(x) ==
    LET neg == x # <<>> /\ x[1] = "-"
        d   == IF x # <<>> /\ x[1] \in {"+", "-"} THEN Tail(x) ELSE x
        u   == DropUnderscores(d)
    IN  IF ~ValidDigitPart(d, IsDigit) THEN [ok |-> FALSE, val |-> 0]
        ELSE LET v == DigitsValue([k \in 1..Len(u) |-> DigitVal(u[k])])
             IN  [ok |-> TRUE, val |-> IF neg THEN 0 - v ELSE v]

FloatError == [kind |-> "error", neg |-> FALSE, digits |-> <<>>, exp |-> 0]

\* float(): the decimal form: digits, an optional point, an optional exponent.
\* The value is digits * 10^exp.
FloatDecimal(neg, b) ==
    LET epos  == {k \in 1..Len(b) : b[k] \in {"e", "E"}}
        mant  == IF epos = {} THEN b ELSE SubSeq(b, 1, Min(epos) - 1)
        ex    == IF epos = {} THEN [ok |-> TRUE, val |-> 0]
                 ELSE FloatExponent(SubSeq(b, Min(epos) + 1, Len(b)))
        dots  == {k \in 1..Len(mant) : mant[k] = "."}
        ipart == IF dots = {} THEN mant ELSE SubSeq(mant, 1, Min(dots) - 1)
        fpart == IF dots = {} THEN <<>> ELSE SubSeq(mant, Min(dots) + 1, Len(mant))
        okI   == ipart = <<>> \/ ValidDigitPart(ipart, IsDigit)
        okF   == fpart = <<>> \/ ValidDigitPart(fpart, IsDigit)
        fdig  == DropUnderscores(fpart)
        all   == DropUnderscores(ipart) \o fdig
    IN  IF ~ex.ok \/ ~okI \/ ~okF \/ (ipart = <<>> /\ fpart = <<>>)
        THEN FloatError
        ELSE [kind |-> "finite", neg |-> neg,
              digits |-> DropLeadingZeros([k \in 1..Len(all) |-> DigitVal(all[k])]),
              exp |-> ex.val - Len(fdig)]

\* the first digits of 2^1024 - 2^970, from which on a decimal rounds to inf
DBL_OVERFLOW == <<1, 7, 9, 7, 6, 9, 3, 1, 3, 4, 8, 6, 2, 3, 1, 5, 8, 0, 7, 9, 3>>

\* a finite decimal too large for a double becomes inf (2^1024 has 309 digits)
FloatRound(fr) ==
    LET n    == Len(fr.digits) + fr.exp
        lead == SubSeq(fr.digits \o [k \in 1..Len(DBL_OVERFLOW) |-> 0],
                       1, Len(DBL_OVERFLOW))
    IN  IF /\ fr.kind = "finite" /\ fr.digits # <<>>
           /\ \/ n > 309
              \/ n = 309 /\ DigitsLE(DBL_OVERFLOW, lead)
        THEN [fr EXCEPT !.kind = "inf"]
        ELSE fr

\* float(s), line 67; a ValueError is kind "error"
PyFloat(s) ==
    LET t   == Strip(s)
        neg == t # <<>> /\ t[1] = "-"
        b   == IF t # <<>> /\ t[1] \in {"+", "-"} THEN Tail(t) ELSE t
    IN  IF Lower(b) \in {<<"i", "n", "f">>, <<"i", "n", "f", "i", "n", "i", "t", "y">>}
        THEN [kind |-> "inf", neg |-> neg, digits |-> <<>>, exp |-> 0]
        ELSE IF Lower(b) = <<"n", "a", "n">>
        THEN [kind |-> "nan", neg |-> neg, digits |-> <<>>, exp |-> 0]
        ELSE FloatRound(FloatDecimal(neg, b))

\* the seconds localtime() and strftime() accept, as digit lists (glibc, 64-bit
\* time_t, UTC: the year has to fit a C int)
TIME_MAX == <<6, 7, 7, 6, 7, 9, 7, 6, 2, 3, 3, 5, 3, 2, 7, 9, 9>>

TIME_MIN_MAGNITUDE == <<6, 7, 7, 6, 8, 0, 4, 0, 6, 0, 9, 7, 4, 0, 8, 0, 0>>

\* the largest magnitude a 32-bit integer holds
INT_MAX == <<2, 1, 4, 7, 4, 8, 3, 6, 4, 7>>

\* int(fr) of a finite float, truncating toward zero: the integer's digits. Only
\* used when the integer has at most Len(TIME_MAX) digits.
IntDigits(fr) ==
    LET n == Len(fr.digits) + fr.exp
    IN  IF fr.digits = <<>> \/ n <= 0 THEN <<>>
        ELSE IF fr.exp >= 0 THEN fr.digits \o [k \in 1..fr.exp |-> 0]
        ELSE SubSeq(fr.digits, 1, n)

Pad2(n) == <<DigitChar(n \div 10), DigitChar(n % 10)>>

\* str(n)
RECURSIVE DecStr(_)
DecStr(n) ==
    IF n < 0 THEN <<"-">> \o DecStr(0 - n)
    ELSE IF n < 10 THEN <<DigitChar(n)>>
    ELSE DecStr(n \div 10) \o <<DigitChar(n % 10)>>

\* the civil date of a day number (days since 1970-01-01), proleptic Gregorian
CivilFromDays(z0) ==
    LET z   == z0 + 719468
        era == z \div 146097
        doe == z - era * 146097
        yoe == (doe - doe \div 1460 + doe \div 36524 - doe \div 146096) \div 365
        doy == doe - (365 * yoe + yoe \div 4 - yoe \div 100)
        mp  == (5 * doy + 2) \div 153
        d   == doy - (153 * mp + 2) \div 5 + 1
        m   == IF mp < 10 THEN mp + 3 ELSE mp - 9
        y   == yoe + era * 400 + (IF m <= 2 THEN 1 ELSE 0)
    IN  [y |-> y, m |-> m, d |-> d]

\* strftime('%Y-%m-%d', localtime(ts)), lines 68-69, in UTC
FormatDate(ts) ==
    LET c == CivilFromDays(ts \div 86400)
    IN  DecStr(c.y) \o <<"-">> \o Pad2(c.m) \o <<"-">> \o Pad2(c.d)

\* strftime('%H:%M:%S', localtime(ts)), lines 68 and 70, in UTC
FormatTime(ts) ==
    LET sod == ts % 86400
    IN  Pad2(sod \div 3600) \o <<":">> \o Pad2((sod % 3600) \div 60)
            \o <<":">> \o Pad2(sod % 60)

INVALID == <<"(", "i", "n", "v", "a", "l", "i", "d", ")">>

\* ConvertDate with an except clause that does not name ValueError
ConvertDate_NoValueError(regdate) ==
    IF PyFloat(regdate).kind \in {"error", "nan"}
    THEN [exc |-> "ValueError", created_date |-> INVALID, created_time |-> INVALID]
    ELSE [exc |-> "", created_date |-> INVALID, created_time |-> INVALID]

\* lines 64-72: what the try block leaves in created_date and created_time, and
\* the exception that leaves it uncaught ("" when none does). A timestamp that
\* localtime() accepts but a 32-bit integer cannot hold is formatted as
\* a tag and its digits.
ConvertDate(regdate) ==
    LET fr   == PyFloat(regdate)
        n   == Len(fr.digits) + fr.exp
        dig == IntDigits(fr)
        ts  == IF fr.neg THEN 0 - DigitsValue(dig) ELSE DigitsValue(dig)
        big == [k \in 1..Len(dig) |-> DigitChar(dig[k])]
    IN  IF fr.kind \in {"error", "nan"}
        THEN [exc |-> "", created_date |-> INVALID, created_time |-> INVALID]
        ELSE IF fr.kind = "inf"
        THEN [exc |-> "OverflowError", created_date |-> INVALID, created_time |-> INVALID]
        ELSE IF fr.digits # <<>> /\ n > Len(TIME_MAX) + 2
        THEN [exc |-> "OverflowError", created_date |-> INVALID, created_time |-> INVALID]
        ELSE IF fr.digits # <<>> /\ n > Len(TIME_MAX)
        THEN [exc |-> "OSError", created_date |-> INVALID, created_time |-> INVALID]
        ELSE IF ~DigitsLE(dig, IF fr.neg THEN TIME_MIN_MAGNITUDE ELSE TIME_MAX)
        THEN [exc |-> "OSError", created_date |-> INVALID, created_time |-> INVALID]
        ELSE IF DigitsLE(dig, INT_MAX)
        THEN [exc |-> "", created_date |-> FormatDate(ts), created_time |-> FormatTime(ts)]
        ELSE [exc |-> "", created_date |-> <<"Y", "m", "d", "@">> \o big,
              created_time |-> <<"H", "M", "S", "@">> \o big]

-----------------------------------------------------------------------------
(* process_user: the hexadecimal last IP of lines 74-83 *)

IsHexDigit(c) ==
    c \in {"0", "1", "2", "3", "4", "5", "6", "7", "8", "9",
           "a", "b", "c", "d", "e", "f", "A", "B", "C", "D", "E", "F"}

HexVal(c) ==
    CASE IsDigit(c) -> DigitVal(c)
      [] c \in {"a", "A"} -> 10 [] c \in {"b", "B"} -> 11 [] c \in {"c", "C"} -> 12
      [] c \in {"d", "D"} -> 13 [] c \in {"e", "E"} -> 14 [] c \in {"f", "F"} -> 15

RECURSIVE HexDigitsValue(_)
HexDigitsValue(d) ==
    IF d = <<>> THEN 0
    ELSE 16 * HexDigitsValue(SubSeq(d, 1, Len(d) - 1)) + HexVal(d[Len(d)])

\* int(g, 16), line 80: whitespace is stripped, a sign and a 0x prefix are
\* accepted, the digits may hold single underscores; ok is FALSE on ValueError
PyIntHex(g) ==
    LET t   == Strip(g)
        neg == t # <<>> /\ t[1] = "-"
        b   == IF t # <<>> /\ t[1] \in {"+", "-"} THEN Tail(t) ELSE t
        d   == IF Len(b) >= 2 /\ Lower(SubSeq(b, 1, 2)) = <<"0", "x">>
               THEN (IF Len(b) >= 3 /\ b[3] = "_" THEN SubSeq(b, 4, Len(b))
                     ELSE SubSeq(b, 3, Len(b)))
               ELSE b
    IN  IF ~ValidDigitPart(d, IsHexDigit) THEN [ok |-> FALSE, val |-> 0]
        ELSE LET v == HexDigitsValue(DropUnderscores(d))
             IN  [ok |-> TRUE, val |-> IF neg THEN 0 - v ELSE v]

\* sep.join(parts)
RECURSIVE Join(_, _)
Join(sep, parts) ==
    IF parts = <<>> THEN <<>>
    ELSE IF Len(parts) = 1 THEN parts[1]
    ELSE parts[1] \o sep \o Join(sep, Tail(parts))

JoinDot(parts) == Join(<<".">>, parts)

\* hex_ip[i:i+2] for i in range(0, len(hex_ip), 2), lines 79-81
HexGroups(hex_ip) ==
    [g \in 1..((Len(hex_ip) + 1) \div 2) |->
        SubSeq(hex_ip, 2 * g - 1, IF 2 * g <= Len(hex_ip) THEN 2 * g ELSE Len(hex_ip))]

BadHex(lastip) ==
    <<"(", "b", "a", "d", " ", "h", "e", "x", ":", " ">> \o lastip \o <<")">>

\* ConvertIp with the groups joined last byte first
ConvertIp_LittleEndian(lastip) ==
    LET groups == HexGroups(SubSeq(lastip, 3, Len(lastip)))
        n      == Len(groups)
    IN  IF ~StartsWith(Lower(lastip), <<"0", "x">>) THEN lastip
        ELSE IF \E g \in 1..n : ~PyIntHex(groups[g]).ok THEN BadHex(lastip)
        ELSE JoinDot([g \in 1..n |-> DecStr(PyIntHex(groups[n + 1 - g]).val)])

\* lines 75-83: ip_final
ConvertIp(lastip) ==
    LET groups == HexGroups(SubSeq(lastip, 3, Len(lastip)))
    IN  IF ~StartsWith(Lower(lastip), <<"0", "x">>) THEN lastip
        ELSE IF \E g \in 1..Len(groups) : ~PyIntHex(groups[g]).ok THEN BadHex(lastip)
        ELSE JoinDot([g \in 1..Len(groups) |-> DecStr(PyIntHex(groups[g]).val)])

-----------------------------------------------------------------------------
(* process_user, step by step *)

\* the indices of lines 55-59 (0-based, as in the code)
IDX_USERNAME == 1

IDX_PWHASH == 2

IDX_EMAIL == 5

IDX_REGDATE == 15

IDX_LASTIP == 64

\* fields[k] of the code raises IndexError
IndexError(flds, k) == k >= Len(flds)

\* fields[k], 0-based
At(flds, k) == flds[k + 1]

NoUser == [username |-> <<>>, email |-> <<>>, created_date |-> <<>>,
           created_time |-> <<>>, last_ip |-> <<>>, password_hash |-> <<>>]

NOT_ENOUGH == "Not enough fields"

PuIdle == [fields |-> <<>>, pc |-> "idle", username |-> <<>>, email |-> <<>>, regdate |-> <<>>,
           lastip |-> <<>>, pwhash |-> <<>>, created_date |-> <<>>,
           created_time |-> <<>>, ip_final |-> <<>>,
           ret |-> [some |-> FALSE, val |-> NoUser], error |-> "", exc |-> ""]

\* lines 54-61
PickFields(fr, flds) ==
    IF \E k \in {IDX_USERNAME, IDX_EMAIL, IDX_REGDATE, IDX_LASTIP, IDX_PWHASH} :
           IndexError(flds, k)
    THEN [fr EXCEPT !.pc = "done", !.error = NOT_ENOUGH]
    ELSE [fr EXCEPT !.pc = "date",
                   !.username = At(flds, IDX_USERNAME),
                   !.email = At(flds, IDX_EMAIL),
                   !.regdate = At(flds, IDX_REGDATE),
                   !.lastip = At(flds, IDX_LASTIP),
                   !.pwhash = At(flds, IDX_PWHASH)]

\* lines 63-72; an exception the except clause does not name leaves the call
DateResult(fr, r) ==
    IF r.exc # ""
    THEN [fr EXCEPT !.pc = "raised", !.exc = r.exc,
                   !.created_date = INVALID, !.created_time = INVALID]
    ELSE [fr EXCEPT !.pc = "ip", !.created_date = r.created_date,
                   !.created_time = r.created_time]

DateStep(fr) == DateResult(fr, ConvertDate(fr.regdate))

\* lines 74-83
IpStep(fr) == [fr EXCEPT !.pc = "return", !.ip_final = ConvertIp(fr.lastip)]

\* lines 85-92
ReturnStep(fr) ==
    [fr EXCEPT !.pc = "done",
              !.ret = Some([username |-> fr.username, email |-> fr.email,
                            created_date |-> fr.created_date,
                            created_time |-> fr.created_time,
                            last_ip |-> fr.ip_final,
                            password_hash |-> fr.pwhash])]

\* a step of the call, taken when the frame stands at it
RunDate(fr) == IF fr.pc = "date" THEN DateStep(fr) ELSE fr

RunIp(fr) == IF fr.pc = "ip" THEN IpStep(fr) ELSE fr

RunReturn(fr) == IF fr.pc = "return" THEN ReturnStep(fr) ELSE fr

\* the whole call, as main uses it: the frame it ends in
ProcessUser(flds) ==
    RunReturn(RunIp(RunDate(PickFields([PuIdle EXCEPT !.pc = "index"], flds))))

PuIndex ==
    /\ pu.pc = "index"
    /\ pu' = PickFields(pu, pu.fields)
    /\ UNCHANGED <<tokvars, envvars, mainvars>>

PuDate ==
    /\ pu.pc = "date"
    /\ pu' = DateStep(pu)
    /\ UNCHANGED <<tokvars, envvars, mainvars>>

PuIp ==
    /\ pu.pc = "ip"
    /\ pu' = IpStep(pu)
    /\ UNCHANGED <<tokvars, envvars, mainvars>>

PuReturn ==
    /\ pu.pc = "return"
    /\ pu' = ReturnStep(pu)
    /\ UNCHANGED <<tokvars, envvars, mainvars>>

-----------------------------------------------------------------------------
(* The field sequences process_user is run on *)

RegAlphabet == {"1", "7", "e", ".", "-", "x"}

HexAlphabet == {"0", "F", "a", "Z", "-"}

REG_1700000000 == <<"1", "7", "0", "0", "0", "0", "0", "0", "0", "0">>

NOT_A_NUMBER == <<"n", "o", "t", "_", "a", "_", "n", "u", "m", "b", "e", "r">>

RegSpecials ==
    { REG_1700000000, NOT_A_NUMBER, <<>>,
      <<"0">>, <<"i", "n", "f">>, <<"-", "I", "n", "f">>, <<"n", "a", "n">>,
      <<"I", "n", "f", "i", "n", "i", "t", "y">>,
      <<"1", "e", "3", "0">>, <<"1", "e", "4", "0", "0">>, <<"1", "e", "1", "7">>,
      <<"1", "e", "1", "6">>, <<"-", "1", "e", "1", "7">>,
      <<" ", "1", "2", " ">>, <<"1", "_", "0">>, <<"1", "_">>,
      <<"N", "U", "L", "L">>, <<"-", "1", ".", "9">>, <<"2", "1", "4", "7", "4", "8", "3", "6", "4", "8">> }

RegDates == SeqsUpTo(RegAlphabet, MaxReg) \cup RegSpecials

IP_7F000001 == <<"0", "x", "7", "F", "0", "0", "0", "0", "0", "1">>

IP_0A000001 == <<"0", "x", "0", "A", "0", "0", "0", "0", "0", "1">>

IP_ZZ == <<"0", "x", "Z", "Z">>

IP_DOTTED == <<"1", "0", ".", "0", ".", "0", ".", "1">>

IpPrefixes == { <<"0", "x">>, <<"0", "X">>, <<>> }

IpSpecials ==
    { IP_7F000001, IP_0A000001, IP_ZZ, IP_DOTTED,
      <<"0", "X", "f", "f", "0", "0", "f", "e", "8", "0">>,
      <<"0", "x", " ", "a">>, <<"0", "x", "+", "a">>, <<"0", "x", "1", "_">>,
      <<" ", "0", "x", "7", "F">> }

LastIps == {p \o r : p \in IpPrefixes, r \in SeqsUpTo(HexAlphabet, MaxHex)} \cup IpSpecials

FieldCounts == {0, 1, 2, 6, 10, 16, 64, 65, 66, 70}

ALICE == <<"a", "l", "i", "c", "e">>

HASH123 == <<"h", "a", "s", "h", "1", "2", "3">>

ALICE_EMAIL == <<"a", "l", "i", "c", "e", "@", "x", ".", "c", "o", "m">>

\* a row of n fields: the five the code reads, and a numbered filler elsewhere
RowFor(n, username, pwhash, email, regdate, lastip) ==
    [k \in 1..n |->
        CASE k - 1 = IDX_USERNAME -> username
          [] k - 1 = IDX_PWHASH -> pwhash
          [] k - 1 = IDX_EMAIL -> email
          [] k - 1 = IDX_REGDATE -> regdate
          [] k - 1 = IDX_LASTIP -> lastip
          [] OTHER -> DecStr((k - 1) % 10)]

Row(n, regdate, lastip) == RowFor(n, ALICE, HASH123, ALICE_EMAIL, regdate, lastip)

UserRows ==
    {Row(n, <<"0">>, IP_DOTTED) : n \in FieldCounts}
        \cup {Row(IDX_LASTIP + 1, r, ip) : r \in RegDates, ip \in {IP_7F000001, IP_ZZ}}
        \cup {Row(IDX_LASTIP + 1, REG_1700000000, ip) : ip \in LastIps}

-----------------------------------------------------------------------------
(* The lines parse_values_line is run on *)

BodyAlphabet == {"a", ",", "'", " "}

Bodies == SeqsUpTo(BodyAlphabet, MaxBody)

\* a well-formed statement around the tuple text b
Wrap(b) == <<"V", "A", "L", "U", "E", "S", "(">> \o b \o <<")", ";">>

EnvPrefixes ==
    { <<>>,
      <<"x", " ">>,
      <<"v", "a", "l", "u", "e", "s", "(">>,
      <<"V", "A", "L", "U", "E", "S", " ", "x", " ">> }

EnvKeywords ==
    { <<"V", "A", "L", "U", "E", "S">>,
      <<"v", "a", "l", "u", "e", "s">>,
      <<"V", "a", "L", "u", "E", "s">>,
      <<"V", "A", "L", "U", "E">> }

EnvSpaces == { <<>>, <<" ">>, <<"\n", "\t">> }

EnvOpens == { <<"(">>, <<>> }

EnvBodies == { <<>>, <<"a">>, <<"a", ",", "b">>, <<")">> }

EnvTails ==
    { <<")">>, <<")", ";">>, <<")", ";", " ">>, <<")", " ", ";">>,
      <<")", "x">>, <<>>, <<")", ";", "\n">>, <<")", ")", ";">> }

EnvLines ==
    { p \o k \o w \o o \o b \o t :
        p \in EnvPrefixes, k \in EnvKeywords, w \in EnvSpaces,
        o \in EnvOpens, b \in EnvBodies, t \in EnvTails }

TokLines == {Wrap(b) : b \in Bodies} \cup EnvLines

-----------------------------------------------------------------------------
(* main, one step per statement group *)

HEADER ==
    << <<"U", "s", "e", "r", "n", "a", "m", "e">>,
       <<"E", "m", "a", "i", "l">>,
       <<"C", "r", "e", "a", "t", "e", "d", "_", "D", "a", "t", "e">>,
       <<"C", "r", "e", "a", "t", "e", "d", "_", "T", "i", "m", "e">>,
       <<"L", "a", "s", "t", "_", "I", "P">>,
       <<"P", "a", "s", "s", "w", "o", "r", "d", "_", "H", "a", "s", "h">> >>

\* the row of lines 148-155
CsvRow(u) ==
    <<u.username, u.email, u.created_date, u.created_time, u.last_ip, u.password_hash>>

\* the progress message is printed every so many processed lines (line 166)
PROGRESS_EVERY == 500

NoReport == [printed |-> FALSE, processed |-> 0, valid_users |-> 0]

\* lines 96-101
MainArgs ==
    /\ mpc = "args"
    /\ IF argc < 2
       THEN mpc' = "exit" /\ exit_code' = 1
       ELSE mpc' = "check_input" /\ UNCHANGED exit_code
    /\ UNCHANGED <<exc, csv_file, csv_writer, f, csv_rows, printed, progress,
                   report, processed, valid_users, line_num, line, fields,
                   user_data, seen, tokvars, uservars, envvars>>

\* lines 103-114
MainCheckInput ==
    /\ mpc = "check_input"
    /\ IF ~is_file
       THEN /\ mpc' = "exit" /\ exit_code' = 1
            /\ UNCHANGED <<processed, valid_users, csv_file, csv_writer>>
       ELSE /\ mpc' = "open_output" /\ UNCHANGED exit_code
            /\ processed' = 0 /\ valid_users' = 0
            /\ csv_file' = "None" /\ csv_writer' = FALSE
    /\ UNCHANGED <<exc, f, csv_rows, printed, progress, report, line_num, line,
                   fields, user_data, seen, tokvars, uservars, envvars>>

\* lines 116-129: the output file is opened outside any with or try block
MainOpenOutput ==
    /\ mpc = "open_output"
    /\ IF argc > 2
       THEN csv_file' = "open" /\ csv_writer' = TRUE /\ csv_rows' = <<HEADER>>
       ELSE UNCHANGED <<csv_file, csv_writer, csv_rows>>
    /\ mpc' = "open_input"
    /\ UNCHANGED <<exc, exit_code, f, printed, progress, report, processed,
                   valid_users, line_num, line, fields, user_data, seen,
                   tokvars, uservars, envvars>>

\* line 131: open() raises OSError when the file cannot be read
MainOpenInput ==
    /\ mpc = "open_input"
    /\ IF readable
       THEN f' = "open" /\ mpc' = "loop" /\ UNCHANGED exc
       ELSE mpc' = "raised" /\ exc' = "OSError" /\ UNCHANGED f
    /\ UNCHANGED <<exit_code, csv_file, csv_writer, csv_rows, printed, progress,
                   report, processed, valid_users, line_num, line, fields,
                   user_data, seen, tokvars, uservars, envvars>>

\* line 132: the file yields its next line, any of the set lines; seen is the
\* history of the lines read, kept when history is set
ReadLine(lines, history) ==
    /\ mpc = "loop"
    /\ \E l \in lines :
        /\ line' = l
        /\ seen' = IF history THEN Append(seen, l) ELSE seen
    /\ line_num' = line_num + 1
    /\ mpc' = "filter"
    /\ UNCHANGED <<exc, exit_code, csv_file, csv_writer, f, csv_rows, printed,
                   progress, report, processed, valid_users, fields, user_data,
                   tokvars, uservars, envvars>>

\* line 132, the file is exhausted; the with block of line 131 closes it
MainEof ==
    /\ mpc = "loop"
    /\ f' = "closed"
    /\ mpc' = "close_csv"
    /\ UNCHANGED <<exc, exit_code, csv_file, csv_writer, csv_rows, printed,
                   progress, report, processed, valid_users, line_num, line,
                   fields, user_data, seen, tokvars, uservars, envvars>>

\* the test of line 134
SkipsLine(l) == l = <<>> \/ CountOf("@", l) = 0

\* lines 133-135
MainFilter ==
    /\ mpc = "filter"
    /\ line' = Strip(line)
    /\ mpc' = IF SkipsLine(line') THEN "loop" ELSE "parse"
    /\ UNCHANGED <<exc, exit_code, csv_file, csv_writer, f, csv_rows, printed,
                   progress, report, processed, valid_users, line_num, fields,
                   user_data, seen, tokvars, uservars, envvars>>

\* the test of line 138
TooFewFields(flds) == ~flds.some \/ flds.val = <<>> \/ Len(flds.val) <= IDX_LASTIP

\* lines 137-139
MainParse ==
    /\ mpc = "parse"
    /\ fields' = ParseValuesLine(line)
    /\ mpc' = IF TooFewFields(fields') THEN "loop" ELSE "process"
    /\ UNCHANGED <<exc, exit_code, csv_file, csv_writer, f, csv_rows, printed,
                   progress, report, processed, valid_users, line_num, line,
                   user_data, seen, tokvars, uservars, envvars>>

\* lines 141-143; an exception of process_user leaves the with block, which
\* closes f, and then main
MainProcess ==
    /\ mpc = "process"
    /\ LET r == ProcessUser(fields.val)
       IN  IF r.pc = "raised"
           THEN /\ mpc' = "raised" /\ exc' = r.exc /\ f' = "closed"
                /\ UNCHANGED user_data
           ELSE /\ mpc' = IF r.error # "" THEN "loop" ELSE "count"
                /\ user_data' = r.ret.val
                /\ UNCHANGED <<exc, f>>
    /\ UNCHANGED <<exit_code, csv_file, csv_writer, csv_rows, printed, progress,
                   report, processed, valid_users, line_num, line, fields, seen,
                   tokvars, uservars, envvars>>

\* line 145
MainCount ==
    /\ mpc = "count"
    /\ valid_users' = valid_users + 1
    /\ mpc' = "emit"
    /\ UNCHANGED <<exc, exit_code, csv_file, csv_writer, f, csv_rows, printed,
                   progress, report, processed, line_num, line, fields,
                   user_data, seen, tokvars, uservars, envvars>>

\* lines 147-163
MainEmit ==
    /\ mpc = "emit"
    /\ IF csv_writer
       THEN csv_rows' = Append(csv_rows, CsvRow(user_data)) /\ UNCHANGED printed
       ELSE printed' = Append(printed, user_data) /\ UNCHANGED csv_rows
    /\ mpc' = "tally"
    /\ UNCHANGED <<exc, exit_code, csv_file, csv_writer, f, progress, report,
                   processed, valid_users, line_num, line, fields, user_data,
                   seen, tokvars, uservars, envvars>>

\* the test of line 166 counting the lines read
ProgressDue_OnLineNum(p, n, w) == n % PROGRESS_EVERY = 0 /\ ~w

\* the test of line 166: p is processed, n is line_num, w is csv_writer
ProgressDue(p, n, w) == p % PROGRESS_EVERY = 0 /\ ~w

\* line 165
Tally(p) == p + 1

\* lines 165-167
MainTally ==
    /\ mpc = "tally"
    /\ processed' = Tally(processed)
    /\ progress' = IF ProgressDue(Tally(processed), line_num, csv_writer)
                   THEN Append(progress, <<Tally(processed), valid_users>>)
                   ELSE progress
    /\ mpc' = "loop"
    /\ UNCHANGED <<exc, exit_code, csv_file, csv_writer, f, csv_rows, printed,
                   report, valid_users, line_num, line, fields, user_data, seen,
                   tokvars, uservars, envvars>>

\* lines 169-170
MainCloseCsv ==
    /\ mpc = "close_csv"
    /\ csv_file' = IF csv_file # "None" THEN "closed" ELSE csv_file
    /\ mpc' = "report"
    /\ UNCHANGED <<exc, exit_code, csv_writer, f, csv_rows, printed, progress,
                   report, processed, valid_users, line_num, line, fields,
                   user_data, seen, tokvars, uservars, envvars>>

\* lines 172-180; main returns None, and line 184 exits with 0
MainReport ==
    /\ mpc = "report"
    /\ report' = [printed |-> TRUE, processed |-> processed,
                  valid_users |-> valid_users]
    /\ exit_code' = 0
    /\ mpc' = "exit"
    /\ UNCHANGED <<exc, csv_file, csv_writer, f, csv_rows, printed, progress,
                   processed, valid_users, line_num, line, fields, user_data,
                   seen, tokvars, uservars, envvars>>

-----------------------------------------------------------------------------
(* The input files main is run on *)

\* the most lines a file of SpecMain holds
MaxLines == 3

\* the most lines a file of SpecProgress holds
MaxLongLines == 501

\* the most lines of a file of SpecProgress that are not user rows
MaxJunkLines == 1

INSERT_INTO ==
    <<"I", "N", "S", "E", "R", "T", " ", "I", "N", "T", "O", " ", "u", " ",
      "V", "A", "L", "U", "E", "S", " ", "(">>

\* a field as the dump writes it: text columns quoted, the others bare
SqlValue(flds, k) ==
    IF k - 1 \in {IDX_USERNAME, IDX_PWHASH, IDX_EMAIL, IDX_LASTIP}
    THEN <<"'">> \o flds[k] \o <<"'">>
    ELSE flds[k]

\* the INSERT statement of a row, as one line of the file
SqlLine(flds) ==
    INSERT_INTO \o Join(<<",">>, [k \in 1..Len(flds) |-> SqlValue(flds, k)])
        \o <<")", ";", "\n">>

BOB == <<"b", "o", "b">>

BOB_EMAIL == <<"b", "@", "y">>

L_BLANK == <<" ", "\n">>

L_COMMENT == <<"-", "-", " ", "x", "\n">>

L_NO_VALUES == <<"-", "-", " ", "a", "@", "b", "\n">>

L_SHORT == SqlLine(Row(IDX_EMAIL + 1, <<>>, <<>>))

L_64 == SqlLine(Row(IDX_LASTIP, <<"0">>, <<>>))

L_NO_AT == SqlLine(RowFor(IDX_LASTIP + 1, ALICE, HASH123, ALICE, <<"0">>, IP_DOTTED))

L_ALICE == SqlLine(Row(IDX_LASTIP + 1, REG_1700000000, IP_0A000001))

L_BOB == SqlLine(RowFor(IDX_LASTIP + 2, BOB, HASH123, BOB_EMAIL, NOT_A_NUMBER, IP_ZZ))

L_INF == SqlLine(RowFor(IDX_LASTIP + 1, BOB, HASH123, BOB_EMAIL, <<"i", "n", "f">>, IP_DOTTED))

JunkLines == {L_BLANK, L_COMMENT, L_NO_VALUES, L_SHORT, L_64, L_NO_AT}

UserLines == {L_ALICE, L_BOB}

MainLines == JunkLines \cup UserLines \cup {L_INF}

MainReadLine ==
    /\ line_num < MaxLines
    /\ ReadLine(MainLines, TRUE)

\* a long file: user rows, and up to MaxJunkLines lines that are skipped
LongLines == {L_ALICE, L_COMMENT}

MainReadLong ==
    /\ line_num < MaxLongLines
    /\ ReadLine({l \in LongLines :
                    l = L_ALICE \/ line_num - processed < MaxJunkLines}, FALSE)

TokIdle ==
    /\ pv = PvIdle
    /\ top_commas = 0
    /\ quoted_commas = 0

UserIdle == pu = PuIdle

MainStart ==
    /\ mpc = "args"
    /\ exc = ""
    /\ exit_code = -1
    /\ csv_file = "None"
    /\ csv_writer = FALSE
    /\ f = "unopened"
    /\ csv_rows = <<>>
    /\ printed = <<>>
    /\ progress = <<>>
    /\ report = NoReport
    /\ processed = 0
    /\ valid_users = 0
    /\ line_num = 0
    /\ line = <<>>
    /\ fields = None
    /\ user_data = NoUser
    /\ seen = <<>>

MainIdle ==
    /\ argc = 1
    /\ is_file = FALSE
    /\ readable = FALSE
    /\ MainStart

InitTok ==
    /\ \E l \in TokLines : pv = [PvIdle EXCEPT !.line = l, !.pc = "search"]
    /\ top_commas = 0
    /\ quoted_commas = 0
    /\ UserIdle
    /\ MainIdle

NextTok == PvSearch \/ PvScan \/ PvFlush \/ PvUnwrap

SpecTok == InitTok /\ [][NextTok]_vars

InitUser ==
    /\ \E r \in UserRows : pu = [PuIdle EXCEPT !.fields = r, !.pc = "index"]
    /\ TokIdle
    /\ MainIdle

NextUser == PuIndex \/ PuDate \/ PuIp \/ PuReturn

SpecUser == InitUser /\ [][NextUser]_vars

InitMain ==
    /\ argc \in {1, 2, 3}
    /\ is_file \in BOOLEAN
    /\ readable \in BOOLEAN
    /\ is_file = FALSE => readable = FALSE
    /\ MainStart
    /\ TokIdle
    /\ UserIdle

NextMain ==
    \/ MainArgs \/ MainCheckInput \/ MainOpenOutput \/ MainOpenInput
    \/ MainReadLine \/ MainEof \/ MainFilter \/ MainParse \/ MainProcess
    \/ MainCount \/ MainEmit \/ MainTally \/ MainCloseCsv \/ MainReport

SpecMain == InitMain /\ [][NextMain]_vars

InitProgress ==
    /\ argc \in {2, 3}
    /\ is_file = TRUE
    /\ readable = TRUE
    /\ MainStart
    /\ TokIdle
    /\ UserIdle

NextProgress ==
    \/ MainArgs \/ MainCheckInput \/ MainOpenOutput \/ MainOpenInput
    \/ MainReadLong \/ MainEof \/ MainFilter \/ MainParse \/ MainProcess
    \/ MainCount \/ MainEmit \/ MainTally \/ MainCloseCsv \/ MainReport

SpecProgress == InitProgress /\ [][NextProgress]_vars

-----------------------------------------------------------------------------
(* Claims about parse_values_line *)

RECURSIVE Flatten(_)
Flatten(ss) == IF ss = <<>> THEN <<>> ELSE Head(ss) \o Flatten(Tail(ss))

\* a is b with some characters left out, the rest in b's order
RECURSIVE IsSubseq(_, _)
IsSubseq(a, b) ==
    IF a = <<>> THEN TRUE
    ELSE IF b = <<>> THEN FALSE
    ELSE IF Head(a) = Head(b) THEN IsSubseq(Tail(a), Tail(b))
    ELSE IsSubseq(a, Tail(b))

BalancedQuotes(s) == CountOf("'", s) % 2 = 0

PvReturned == pv.pc = "done" /\ pv.ret.some

\* the commas of v that have an even number of quotes before them
TopCommaPositions(v) ==
    {k \in 1..Len(v) : v[k] = "," /\ CountOf("'", SubSeq(v, 1, k - 1)) % 2 = 0}

\* the text after the last top-level comma of v (all of v when it has none)
TrailingText(v) == SubSeq(v, Max(TopCommaPositions(v) \cup {0}) + 1, Len(v))

\* C1 as claimed: for every matched line whose tuple text has balanced single
\* quotes, the number of returned fields is the number of commas seen outside
\* quotes plus one (the trailing field is always captured), the fields are in
\* source order, and every comma seen inside quotes stays inside a field.
C1_FieldCountIsTopCommasPlusOne ==
    (PvReturned /\ BalancedQuotes(pv.values_str)) =>
        /\ Len(pv.ret.val) = top_commas + 1
        /\ IsSubseq(Flatten(pv.ret.val), pv.values_str)
        /\ CountOf(",", Flatten(pv.ret.val)) = quoted_commas

\* C1 as amended: for every matched line whose tuple text has balanced single
\* quotes, the number of returned fields is the number of commas seen outside
\* quotes, plus one when the text after the last of them is not empty (an empty
\* trailing accumulator is not flushed); the fields are in source order, and
\* every comma seen inside quotes stays inside a field.
C1_FieldCountAmended ==
    (PvReturned /\ BalancedQuotes(pv.values_str)) =>
        /\ top_commas = Cardinality(TopCommaPositions(pv.values_str))
        /\ Len(pv.ret.val) =
               top_commas + (IF TrailingText(pv.values_str) = <<>> THEN 0 ELSE 1)
        /\ IsSubseq(Flatten(pv.ret.val), pv.values_str)
        /\ CountOf(",", Flatten(pv.ret.val)) = quoted_commas
        /\ \A k \in 1..Len(pv.ret.val) : CountOf(",", pv.fields[k]) > 0 =>
               CountOf("'", pv.fields[k]) >= 2

\* C1's case: a quoted comma inside one field, between two other fields
C1_Witness ==
    /\ PvReturned /\ BalancedQuotes(pv.values_str)
    /\ top_commas >= 1 /\ quoted_commas >= 1
    /\ TrailingText(pv.values_str) # <<>>
    /\ \E k \in 1..Len(pv.ret.val) : pv.ret.val[k] = <<",">>

\* C2 as claimed: every split field that starts and ends with a single quote
\* is returned two characters shorter, as its interior; every other field is
\* returned unchanged.
C2_UnwrapRemovesOneQuoteEachEnd ==
    PvReturned =>
        /\ Len(pv.ret.val) = Len(pv.fields)
        /\ \A k \in 1..Len(pv.fields) :
            LET fr == pv.fields[k]
                r == pv.ret.val[k]
            IN  IF fr # <<>> /\ fr[1] = "'" /\ fr[Len(fr)] = "'"
                THEN /\ Len(r) = Len(fr) - 2
                     /\ \A j \in 1..Len(r) : r[j] = fr[j + 1]
                ELSE r = fr

\* C2 as amended: every split field of two or more characters that starts and
\* ends with a single quote is returned two characters shorter, as its
\* interior; the field that is one single quote is returned empty (one
\* character shorter); every other field is returned unchanged.
C2_UnwrapAmended ==
    PvReturned =>
        /\ Len(pv.ret.val) = Len(pv.fields)
        /\ \A k \in 1..Len(pv.fields) :
            LET fr == pv.fields[k]
                r == pv.ret.val[k]
            IN  IF Len(fr) >= 2 /\ fr[1] = "'" /\ fr[Len(fr)] = "'"
                THEN /\ Len(r) = Len(fr) - 2
                     /\ \A j \in 1..Len(r) : r[j] = fr[j + 1]
                ELSE IF fr = <<"'">> THEN r = <<>>
                ELSE r = fr

\* C2's case: a quoted field with a comma inside, unwrapped, next to a field
\* that has no surrounding quotes and one that only opens with a quote
C2_Witness ==
    /\ PvReturned
    /\ \E k \in 1..Len(pv.fields) :
        pv.fields[k] = <<"'", "a", ",", "'">> /\ pv.ret.val[k] = <<"a", ",">>

\* a VALUES clause of l that starts at s: the keyword, whitespace, and the
\* parenthesis at q; it is closed at e, where only an optional semicolon and
\* whitespace follow
ClauseOpens(l, s, q) ==
    /\ s + 5 < q /\ q <= Len(l)
    /\ \A k \in 1..6 : l[s + k - 1] \in {KEYWORD[k], <<"V", "A", "L", "U", "E", "S">>[k]}
    /\ \A k \in (s + 6)..(q - 1) : IsSpace(l[k])
    /\ l[q] = "("

ClauseCloses(l, e) ==
    /\ l[e] = ")"
    /\ \E t \in {e + 1, e + 2} :
        /\ t = e + 2 => (e + 1 <= Len(l) /\ l[e + 1] = ";")
        /\ \A k \in t..Len(l) : IsSpace(l[k])

\* the parentheses that open a clause of l that is closed
ClauseParens(l) ==
    {q \in 1..Len(l) :
        /\ \E s \in 1..Len(l) : ClauseOpens(l, s, q)
        /\ \E e \in (q + 1)..Len(l) : ClauseCloses(l, e)}

\* C8: parse_values_line is total; it returns no-match exactly for the lines
\* with no VALUES clause that ends the line, and for the others the captured
\* text starts right after the parenthesis of the first clause.
C8_TotalAndNoMatch ==
    /\ pv.pc \in {"search", "scan", "unwrap", "done"}
    /\ pv.pc = "scan" => pv.i \in 1..(Len(pv.values_str) + 1)
    /\ pv.pc # "search" =>
        LET parens == ClauseParens(pv.line)
        IN  IF parens = {}
            THEN pv.pc = "done" /\ pv.ret = None
            ELSE /\ pv.pc = "done" => pv.ret.some
                 /\ pv.values_str =
                        SubSeq(pv.line, Min(parens) + 1, Min(parens) + Len(pv.values_str))

\* C8's case: a matched line that holds the keyword twice
C8_Witness ==
    /\ PvReturned
    /\ Cardinality({s \in 1..Len(pv.line) : KeywordAt(pv.line, s)}) >= 2
    /\ pv.ret.val # <<>>

-----------------------------------------------------------------------------
(* Claims about process_user *)

\* the call has ended, by a return or by an exception
PuEnded == pu.pc \in {"done", "raised"}

\* the call has returned a record
PuRecord == pu.pc = "done" /\ pu.ret.some

EnoughFields == Len(pu.fields) > IDX_LASTIP

\* the record holds all six values, the three plain ones as the row has them
Populated(u) ==
    /\ u.username = At(pu.fields, IDX_USERNAME)
    /\ u.password_hash = At(pu.fields, IDX_PWHASH)
    /\ u.email = At(pu.fields, IDX_EMAIL)
    /\ u.created_date # <<>>
    /\ u.created_time # <<>>
    /\ u.last_ip = pu.ip_final

\* C3: process_user returns a record if and only if the field sequence has at
\* least 65 elements: with fewer it returns no record and the reason "Not
\* enough fields"; with 65 or more it returns a fully populated record and
\* never raises, whatever the registration and last-IP fields hold.
C3_RecordIffEnoughFields ==
    PuEnded =>
        /\ pu.pc = "done"
        /\ pu.ret.some <=> EnoughFields
        /\ ~EnoughFields => pu.error = NOT_ENOUGH
        /\ EnoughFields => pu.error = "" /\ Populated(pu.ret.val)

\* the text after the two characters of the prefix
HexRemainder(lastip) == SubSeq(lastip, 3, Len(lastip))

HasHexPrefix(lastip) == StartsWith(Lower(lastip), <<"0", "x">>)

AllHexDigits(h) == \A k \in 1..Len(h) : IsHexDigit(h[k])

\* C4: for every field sequence of at least 65 elements whose last-IP field
\* begins, in either case, with 0x and whose remainder has odd length or holds
\* a character that is not a hexadecimal digit, the record process_user
\* produces has last_ip set to the marker "(bad hex: <raw>)" around the raw
\* text. (That the record is produced at all is the part C3 states.)
C4_BadHexIsMarked ==
    (/\ PuRecord
     /\ EnoughFields
     /\ HasHexPrefix(pu.lastip)
     /\ \/ Len(HexRemainder(pu.lastip)) % 2 = 1
        \/ ~AllHexDigits(HexRemainder(pu.lastip)))
        => pu.ret.val.last_ip = BadHex(pu.lastip)

\* C6: for every field sequence of at least 65 elements whose registration
\* field is not parseable as a number, process_user sets created_date and
\* created_time both to "(invalid)" and still returns the record with username,
\* password_hash and email taken from indices 1, 2 and 5; in every returned
\* record the two are either both "(invalid)" or both formatted values.
C6_UnparseableDateIsInvalid ==
    /\ (PuEnded /\ EnoughFields /\ PyFloat(At(pu.fields, IDX_REGDATE)).kind = "error")
           => /\ PuRecord
              /\ pu.ret.val.created_date = INVALID
              /\ pu.ret.val.created_time = INVALID
              /\ pu.ret.val.username = At(pu.fields, IDX_USERNAME)
              /\ pu.ret.val.password_hash = At(pu.fields, IDX_PWHASH)
              /\ pu.ret.val.email = At(pu.fields, IDX_EMAIL)
    /\ PuRecord =>
           (pu.ret.val.created_date = INVALID <=> pu.ret.val.created_time = INVALID)

\* C6's case: the registration field not_a_number, the record returned
C6_Witness ==
    /\ PuRecord
    /\ At(pu.fields, IDX_REGDATE) = NOT_A_NUMBER
    /\ pu.ret.val.created_date = INVALID
    /\ pu.ret.val.username = ALICE

\* the value of the g-th pair of hexadecimal digits of h
ByteOf(h, g) == 16 * HexVal(h[2 * g - 1]) + HexVal(h[2 * g])

DOTTED_127_0_0_1 == <<"1", "2", "7", ".", "0", ".", "0", ".", "1">>

DOTTED_10_0_0_1 == <<"1", "0", ".", "0", ".", "0", ".", "1">>

\* C7: for every last-IP field that begins, in either case, with 0x followed by
\* an even number of hexadecimal digits, last_ip is the 2-digit groups taken
\* left to right, each as its decimal value in 0..255, joined with '.', so that
\* 0x7F000001 gives 127.0.0.1 and 0x0A000001 gives 10.0.0.1; every last-IP
\* field that does not begin with 0x is returned unchanged.
C7_HexIpIsDottedDecimal ==
    PuRecord =>
        /\ (/\ HasHexPrefix(pu.lastip)
            /\ AllHexDigits(HexRemainder(pu.lastip))
            /\ Len(HexRemainder(pu.lastip)) % 2 = 0)
               => LET h == HexRemainder(pu.lastip)
                      n == Len(h) \div 2
                  IN  /\ \A g \in 1..n : ByteOf(h, g) \in 0..255
                      /\ pu.ret.val.last_ip = JoinDot([g \in 1..n |-> DecStr(ByteOf(h, g))])
                      /\ n > 0 => CountOf(".", pu.ret.val.last_ip) = n - 1
        /\ pu.lastip = IP_7F000001 => pu.ret.val.last_ip = DOTTED_127_0_0_1
        /\ pu.lastip = IP_0A000001 => pu.ret.val.last_ip = DOTTED_10_0_0_1
        /\ ~HasHexPrefix(pu.lastip) => pu.ret.val.last_ip = pu.lastip

\* C7's case: 0x7F000001 converted
C7_Witness ==
    /\ PuRecord
    /\ pu.lastip = IP_7F000001
    /\ pu.ret.val.last_ip = DOTTED_127_0_0_1

-----------------------------------------------------------------------------
(* Claims about main *)

\* the run has ended, by sys.exit or by an uncaught exception
MainEnded == mpc \in {"exit", "raised"}

\* no line is being worked on
BetweenLines == mpc \in {"loop", "close_csv", "report", "exit", "raised"}

\* C5: the output file handle and the input file handle are both released on
\* every exit path of the run once they have been opened, including the exits
\* by an error raised while opening or reading the input or while processing a
\* line: no terminal state of the run leaves the CSV handle open.
C5_HandlesReleased ==
    MainEnded => csv_file # "open" /\ f # "open"

\* the line meets one of the four criteria by which a line is skipped
Skipped(l) ==
    \/ Strip(l) = <<>>
    \/ CountOf("@", Strip(l)) = 0
    \/ ~ParseValuesLine(Strip(l)).some
    \/ Len(ParseValuesLine(Strip(l)).val) < IDX_LASTIP + 1

\* the lines of ls that are not skipped, in order
RECURSIVE Kept(_)
Kept(ls) ==
    IF ls = <<>> THEN <<>>
    ELSE IF Skipped(Head(ls)) THEN Kept(Tail(ls))
    ELSE <<Head(ls)>> \o Kept(Tail(ls))

\* the CSV row of a line that is not skipped
RowOf(l) == CsvRow(ProcessUser(ParseValuesLine(Strip(l)).val).ret.val)

\* C9: in CSV mode, after any sequence of input lines, the output is the
\* six-column header, written first and once, followed by exactly one row per
\* valid user in input-line order; every line that is blank, lacks '@', has no
\* VALUES match or yields fewer than 65 fields is skipped, leaving both
\* counters and the output unchanged.
C9_HeaderThenOneRowPerUser ==
    (csv_writer /\ BetweenLines) =>
        /\ csv_rows # <<>> /\ csv_rows[1] = HEADER
        /\ Len(csv_rows) = 1 + Len(Kept(seen))
        /\ \A k \in 1..Len(Kept(seen)) :
               k + 1 <= Len(csv_rows) => csv_rows[k + 1] = RowOf(Kept(seen)[k])
        /\ valid_users = Len(Kept(seen))
        /\ processed = Len(Kept(seen))

\* C10: the two counters are equal at the end of every loop iteration, both
\* being incremented only on the path of a line that yields a record (between
\* the two increments valid_users is one ahead); the final report's two
\* numbers never differ; and the progress message, in console mode only, fires
\* on every 500th valid user, whatever the number of lines read.
C10_CountersEqual ==
    /\ mpc \notin {"emit", "tally"} => processed = valid_users
    /\ mpc \in {"emit", "tally"} => valid_users = processed + 1
    /\ report.printed => report.processed = report.valid_users
    /\ \A k \in 1..Len(progress) :
           progress[k] = <<PROGRESS_EVERY * k, PROGRESS_EVERY * k>>
    /\ csv_writer => progress = <<>>
    /\ (~csv_writer /\ mpc \notin {"emit", "tally"})
           => Len(progress) = valid_users \div PROGRESS_EVERY

\* C10's case: the report of a console run that read one line more than it
\* has users, the progress message printed at the 500th user
C10_Witness ==
    /\ mpc = "exit"
    /\ report.printed
    /\ report.processed = PROGRESS_EVERY
    /\ line_num = PROGRESS_EVERY + 1
    /\ progress = << <<PROGRESS_EVERY, PROGRESS_EVERY>> >>

=============================================================================
